---- MODULE Spec2Model ----
(***************************************************************************)
(* The notebook SQL_Subqueries.ipynb as a state machine.                   *)
(*                                                                         *)
(* State: the Python kernel's namespace (pd/sqlite3 imported, conn, query),*)
(* the SQLite connection handles, the file flights.db, the cell in flight  *)
(* and the outcome of the cell that finished last.  The query strings of   *)
(* the code cells are translated clause by clause into operators over      *)
(* tables (sequences of rows in rowid order), with SQLite's treatment of   *)
(* NULL, of GROUP BY, of ORDER BY ... LIMIT and of missing tables.         *)
(*                                                                         *)
(* Encoding of values: every column value is an integer; 0 is SQL NULL     *)
(* (which SQLite sorts before every other value), countries are numbered   *)
(* in the order of their names (CountryNames), so that integer order is    *)
(* the collation order of the text.                                        *)
(***************************************************************************)
EXTENDS Integers, Sequences, FiniteSets, TLC

VARIABLES
    db,        \* flights.db: schema (tables, indexes) and rows
    imported,  \* the names pd and sqlite3 are bound in the kernel
    conn,      \* the kernel global conn: 0 = unbound, else a handle
    opened,    \* the connection handles that are open
    nopened,   \* how many handles sqlite3.connect has returned so far
    query,     \* the kernel global query: "" = unbound, else a query string
    running,   \* the set of cells whose execution is in flight
    execs,     \* statements the cell in flight has handed to the engine
    used,      \* the handle the most recent pd.read_sql was given (0: none)
    failed,    \* some earlier query execution ended in an engine error
    last       \* outcome of the cell execution that finished last

vars == <<db, imported, conn, opened, nopened, query, running, execs, used,
          failed, last>>

(***************************** bounds *************************************)
MaxPerCountry == 2
MaxPerRoute == 2
MaxConnects == 2

(***************************** values *************************************)
NULL == 0

CountryNames ==
    <<"Australia", "Brazil", "Canada", "Germany", "Russia", "United States">>

Countries == DOMAIN CountryNames

CountryId(name) == CHOOSE i \in Countries : CountryNames[i] = name

TableNames == {"airports", "routes", "airlines"}

(************************ the embedded engine *****************************)
Min(a, b) == IF a <= b THEN a ELSE b

\* The elements of a set of integers in ascending order.
SortedSeq(S) ==
    [i \in 1..Cardinality(S) |->
        CHOOSE x \in S : Cardinality({y \in S : y < x}) = i - 1]

Range(s) == {s[i] : i \in DOMAIN s}

\* x IN (list) is TRUE only for a non-NULL x that is in the list; it is NULL
\* (and a WHERE clause rejects the row) when x is NULL or x is absent.
SqlIn(x, list) == x # NULL /\ x \in Range(list)

\* a = b in an ON clause is TRUE only for two equal non-NULL values.
SqlEq(a, b) == a # NULL /\ b # NULL /\ a = b

\* GROUP BY col with COUNT(): one row <<key, count>> per distinct value of the
\* column, NULL forming a group of its own, in ascending key order.
GroupCount(rows, col) ==
    LET keys == SortedSeq({rows[i][col] : i \in DOMAIN rows})
    IN  [j \in DOMAIN keys |->
            <<keys[j], Cardinality({i \in DOMAIN rows : rows[i][col] = keys[j]})>>]

\* g comes before h under ORDER BY COUNT() DESC.  Equal counts are ordered by
\* the plan: the groups come out of an index on the grouped column in
\* ascending key order and keep it; without the index they end in descending
\* key order.
CountDescBefore(g, h, hasIndex) ==
    \/ g[2] > h[2]
    \/ /\ g[2] = h[2]
       /\ IF hasIndex THEN g[1] <= h[1] ELSE g[1] >= h[1]

\* ORDER BY COUNT() DESC over the rows <<key, count>> of a GROUP BY.
OrderByCountDesc(groups, hasIndex) ==
    [i \in 1..Cardinality(groups) |->
        CHOOSE g \in groups :
            Cardinality({h \in groups \ {g} : CountDescBefore(h, g, hasIndex)})
                = i - 1]

Limit(rows, n) == SubSeq(rows, 1, Min(n, Len(rows)))

Project(rows, k) == [i \in DOMAIN rows |-> rows[i][k]]

\* ORDER BY on column k of tuples, ascending, rows with equal keys in the
\* order they were produced.
RECURSIVE ConcatByKey(_, _, _)
ConcatByKey(keys, rows, k) ==
    IF keys = <<>> THEN <<>>
    ELSE SelectSeq(rows, LAMBDA r : r[k] = Head(keys))
            \o ConcatByKey(Tail(keys), rows, k)

OrderBy(rows, k) == ConcatByKey(SortedSeq({rows[i][k] : i \in DOMAIN rows}), rows, k)

\* SELECT DISTINCT: the first occurrence of every row.
Distinct(rows) ==
    LET firsts == {i \in DOMAIN rows : \A j \in 1..(i - 1) : rows[j] # rows[i]}
        at == SortedSeq(firsts)
    IN  [k \in DOMAIN at |-> rows[at[k]]]

\* routes AS rt LEFT JOIN airports AS ap ON rt.source_id = ap.id, projected on
\* rt.source, rt.dest, ap.country: a route with no matching airport yields one
\* row whose country is NULL.
RECURSIVE RoutesLeftJoinAirports(_, _)
RoutesLeftJoinAirports(routes, airports) ==
    IF routes = <<>> THEN <<>>
    ELSE LET rt == Head(routes)
             m  == SelectSeq(airports, LAMBDA ap : SqlEq(rt.source_id, ap.id))
             out == IF m = <<>> THEN << <<rt.source, rt.dest, NULL>> >>
                    ELSE [i \in DOMAIN m |-> <<rt.source, rt.dest, m[i].country>>]
         IN  out \o RoutesLeftJoinAirports(Tail(routes), airports)

(************************* the query strings ******************************)
\* The SELECT inside the FROM clause, and the first query cell: the number of
\* routes per value of routes.source.
Departures(d) == GroupCount(d.routes, "source")

RECURSIVE SumCounts(_)
SumCounts(rows) ==
    IF rows = <<>> THEN 0 ELSE Head(rows)[2] + SumCounts(Tail(rows))

\* SELECT AVG(number_of_departures) FROM (...): one row <<sum, n>> standing for
\* the quotient sum / n over the n rows of the subquery; n = 0 is AVG's NULL
\* over no rows.
AvgDepartures(d) ==
    LET sub == Departures(d)
    IN  << <<SumCounts(sub), Len(sub)>> >>

Top5ListingLimit == 5

\* country, COUNT() ... GROUP BY country ORDER BY number_of_airports_in_country
\* DESC LIMIT 5.
Top5Listing(d) ==
    Limit(OrderByCountDesc(Range(GroupCount(d.airports, "country")),
                           "airports" \in d.indexes),
          Top5ListingLimit)

HardcodedCountries ==
    <<CountryId("United States"), CountryId("Canada"), CountryId("Germany"),
      CountryId("Australia"), CountryId("Russia")>>

HardcodedFilter(d) ==
    OrderBy(SelectSeq(RoutesLeftJoinAirports(d.routes, d.airports),
                      LAMBDA r : SqlIn(r[3], HardcodedCountries)), 3)

SubqueryLimit == 5

\* (SELECT country FROM airports GROUP BY country ORDER BY COUNT() DESC LIMIT 5)
Top5CountriesSubquery(d) ==
    Project(Limit(OrderByCountDesc(Range(GroupCount(d.airports, "country")),
                                   "airports" \in d.indexes),
                  SubqueryLimit), 1)

\* The WHERE-subquery cell.
WhereSubquery(d) ==
    LET sub == Top5CountriesSubquery(d)
    IN  OrderBy(SelectSeq(RoutesLeftJoinAirports(d.routes, d.airports),
                          LAMBDA r : SqlIn(r[3], sub)), 3)

CteLimit == 5

\* The WITH clause without its ORDER BY COUNT() DESC.
top_5_countries_unordered(d) ==
    Project(Limit(GroupCount(d.airports, "country"), CteLimit), 1)

\* WITH top_5_countries AS (SELECT country ... LIMIT 5)
top_5_countries(d) ==
    Project(Limit(OrderByCountDesc(Range(GroupCount(d.airports, "country")),
                                   "airports" \in d.indexes),
                  CteLimit), 1)

\* The CTE cell: the main SELECT, which names the table top_5_countries.
CteQuery(d) ==
    LET cte == top_5_countries(d)
    IN  OrderBy(SelectSeq(RoutesLeftJoinAirports(d.routes, d.airports),
                          LAMBDA r : SqlIn(r[3], cte)), 3)

Top3Limit == 3

\* WITH top_3_airports AS (SELECT source_id FROM routes GROUP BY source_id
\* ORDER BY COUNT() DESC LIMIT 3)
top_3_airports(d) ==
    Project(Limit(OrderByCountDesc(Range(GroupCount(d.routes, "source_id")),
                                   "routes" \in d.indexes),
                  Top3Limit), 1)

\* The exercise cell's query: SELECT DISTINCT a.name FROM airlines AS a JOIN
\* routes AS r ON a.id = r.airline_id WHERE r.source_id IN top_3_airports OR
\* r.dest_id IN top_3_airports.
RECURSIVE AirlinesJoinRoutes(_, _, _)
AirlinesJoinRoutes(airlines, routes, top) ==
    IF airlines = <<>> THEN <<>>
    ELSE LET a == Head(airlines)
             m == SelectSeq(routes, LAMBDA r :
                     /\ SqlEq(a.id, r.airline_id)
                     /\ (SqlIn(r.source_id, top) \/ SqlIn(r.dest_id, top)))
         IN  [i \in DOMAIN m |-> <<a.name>>]
                \o AirlinesJoinRoutes(Tail(airlines), routes, top)

ExerciseQuery(d) ==
    LET cte == top_3_airports(d)
    IN  Distinct(AirlinesJoinRoutes(d.airlines, d.routes, cte))

\* The tables a query string names, in the order the engine resolves them.
TablesOf(sql) ==
    CASE sql = "departures"     -> <<"routes">>
      [] sql = "avg_departures" -> <<"routes">>
      [] sql = "top5_listing"   -> <<"airports">>
      [] sql = "hardcoded"      -> <<"routes", "airports">>
      [] sql = "where_subquery" -> <<"routes", "airports">>
      [] sql = "cte"            -> <<"routes", "airports">>
      [] sql = "exercise"       -> <<"airlines", "routes">>
      [] OTHER                  -> <<>>

RowsOf(sql, d) ==
    CASE sql = "departures"     -> Departures(d)
      [] sql = "avg_departures" -> AvgDepartures(d)
      [] sql = "top5_listing"   -> Top5Listing(d)
      [] sql = "hardcoded"      -> HardcodedFilter(d)
      [] sql = "where_subquery" -> WhereSubquery(d)
      [] sql = "cte"            -> CteQuery(d)
      [] sql = "exercise"       -> ExerciseQuery(d)
      [] OTHER                  -> <<>>

QueryStrings ==
    {"departures", "avg_departures", "top5_listing", "hardcoded",
     "where_subquery", "cte", "exercise"}

\* What the engine answers to a statement: its rows, or its error.  A table
\* the schema lacks is "no such table: <the first one missing>"; a string that
\* is no statement is a syntax error.
Execute(sql, d) ==
    LET missing == SelectSeq(TablesOf(sql), LAMBDA t : t \notin d.tables)
    IN  IF sql \notin QueryStrings
        THEN [kind |-> "DatabaseError", rows |-> <<>>, what |-> "syntax error"]
        ELSE IF missing # <<>>
        THEN [kind |-> "DatabaseError", rows |-> <<>>, what |-> Head(missing)]
        ELSE [kind |-> "rows", rows |-> RowsOf(sql, d), what |-> ""]

\* The WITH clause leaving its table behind in the schema.
DatabaseAfterKeepsCte(sql, d) ==
    IF sql = "cte" THEN [d EXCEPT !.tables = @ \cup {"top_5_countries"}] ELSE d

\* What a statement leaves in the database file: every statement of the
\* notebook is a SELECT or a WITH ... SELECT, which writes nothing.
DatabaseAfter(sql, d) == d

(*************************** the code cells *******************************)
Cells ==
    {"import", "connect", "departures", "avg", "top5", "hardcoded", "where",
     "cte", "exercise"}

QueryCells == Cells \ {"import", "connect"}

\* The string literal a query cell holds.
CellLiteral(c) ==
    CASE c = "departures" -> "departures"
      [] c = "avg"        -> "avg_departures"
      [] c = "top5"       -> "top5_listing"
      [] c = "hardcoded"  -> "hardcoded"
      [] c = "where"      -> "where_subquery"
      [] c = "cte"        -> "cte"
      [] c = "exercise"   -> "exercise"
      [] OTHER            -> ""

\* The kernel global query once the cell's statements before its pd.read_sql
\* call have run: only the exercise cell assigns it.
QueryAfterAssignment(c, q) == IF c = "exercise" THEN CellLiteral(c) ELSE q

\* Every cell passing the variable query once it is bound.
SqlArgumentShared(c, q, q2) == IF q2 # "" THEN q2 ELSE CellLiteral(c)

\* The first argument of the cell's pd.read_sql call: its own literal, or, in
\* the exercise cell, the variable query it has just assigned (q is the
\* variable before the cell, q2 after the assignment).
SqlArgument(c, q, q2) == IF c = "exercise" THEN q2 ELSE CellLiteral(c)

\* The exercise cell holding on to the first handle.
ConnArgumentFirst(c, h) == IF c = "exercise" /\ h # 0 THEN 1 ELSE h

\* The second argument of the cell's pd.read_sql call: the global conn.
ConnArgument(c, h) == h

\* An error of the engine answered with an empty frame.
ReadSqlSwallow(sql, d) ==
    [calls |-> 1, kind |-> "rows", rows |-> Execute(sql, d).rows, what |-> ""]

\* pd.read_sql(sql, conn): the statement goes to the engine once; its rows
\* come back as the frame, its error is raised to the cell.
ReadSql(sql, d) == [calls |-> 1] @@ Execute(sql, d)

\* The CTE cell handing its query to a background thread.
BlockingExceptCte(c) == c # "cte"

\* Every call in the cells is synchronous: the cell is in flight until the
\* call has returned or raised.
Blocking(c) == TRUE

NoOutcome == [cell |-> "", kind |-> "none", rows |-> <<>>, what |-> ""]

NameError(c, name) ==
    [cell |-> c, kind |-> "NameError", rows |-> <<>>, what |-> name]

\* The kernel takes up a cell's execution.
Start(c) ==
    /\ \A r \in running : ~Blocking(r)
    /\ c = "connect" => nopened < MaxConnects
    /\ running' = running \cup {c}
    /\ execs' = 0
    /\ UNCHANGED <<db, imported, conn, opened, nopened, query, used, failed, last>>

\* import pandas as pd; import sqlite3
FinishImport ==
    /\ "import" \in running
    /\ imported' = TRUE
    /\ running' = running \ {"import"}
    /\ last' = [cell |-> "import", kind |-> "ok", rows |-> <<>>, what |-> ""]
    /\ UNCHANGED <<db, conn, opened, nopened, query, execs, used, failed>>

\* conn = sqlite3.connect('flights.db'): a new handle, bound to conn; the
\* handle conn was bound to loses its last reference and is closed.
FinishConnect ==
    /\ "connect" \in running
    /\ running' = running \ {"connect"}
    /\ IF imported
       THEN /\ nopened' = nopened + 1
            /\ conn' = nopened + 1
            /\ opened' = (opened \ {conn}) \cup {nopened + 1}
            /\ last' = [cell |-> "connect", kind |-> "ok", rows |-> <<>>,
                        what |-> ""]
       ELSE /\ last' = NameError("connect", "sqlite3")
            /\ UNCHANGED <<conn, opened, nopened>>
    /\ UNCHANGED <<db, imported, query, execs, used, failed>>

\* What the statements of query cell c do to everything but the set of cells
\* in flight; e is the number of statements the execution has issued so far.
QueryCellEffect(c, e) ==
    LET q2  == QueryAfterAssignment(c, query)
        sql == SqlArgument(c, query, q2)
        h   == ConnArgument(c, conn)
        reached == imported /\ h # 0
    IN  /\ query' = q2
        /\ IF reached
           THEN \E res \in {ReadSql(sql, db)} :
                /\ db' = DatabaseAfter(sql, db)
                /\ execs' = e + res.calls
                /\ used' = h
                /\ failed' = (failed \/ res.kind = "DatabaseError")
                /\ last' = [cell |-> c, kind |-> res.kind, rows |-> res.rows,
                            what |-> res.what]
           ELSE /\ last' = NameError(c, IF imported THEN "conn" ELSE "pd")
                /\ execs' = e
                /\ UNCHANGED <<db, used, failed>>
        /\ UNCHANGED <<imported, conn, opened, nopened>>

FinishQuery(c) ==
    /\ c \in running
    /\ running' = running \ {c}
    /\ QueryCellEffect(c, execs)

\* A query cell run from start to end.
RunQuery(c) ==
    /\ running = {}
    /\ UNCHANGED running
    /\ QueryCellEffect(c, 0)

(**************************** databases ***********************************)
RECURSIVE CountrySeq(_, _)
CountrySeq(cnt, c) ==
    IF c > Len(CountryNames) THEN <<>>
    ELSE [i \in 1..cnt[c] |-> c] \o CountrySeq(cnt, c + 1)

\* cnt[c] airports in country c (c = NULL: airports without a country), with
\* ids 1, 2, ...
AirportsOf(cnt) ==
    LET cs == CountrySeq(cnt, NULL)
    IN  [i \in DOMAIN cs |-> [id |-> i, country |-> cs[i]]]

AirportCode(id) == 100 + id

Route(s, t, a) ==
    [source |-> AirportCode(s), source_id |-> s, dest |-> AirportCode(t),
     dest_id |-> t, airline_id |-> a]

\* One route out of every airport, one out of an id no airport has, and one
\* whose source_id is NULL.
RoutesOutOfEvery(airports) ==
    [i \in DOMAIN airports |-> Route(airports[i].id, 1, 1)]
        \o <<Route(Len(airports) + 1, 1, 1), Route(NULL, 1, 1)>>

SomeAirlines ==
    <<[id |-> 1, name |-> 1], [id |-> 2, name |-> 2], [id |-> 3, name |-> 3],
      [id |-> 4, name |-> 1], [id |-> 5, name |-> 5]>>

SomeAirports ==
    <<[id |-> 1, country |-> CountryId("United States")],
      [id |-> 2, country |-> CountryId("United States")],
      [id |-> 3, country |-> CountryId("Canada")],
      [id |-> 4, country |-> NULL]>>

RouteKinds ==
    <<Route(1, 2, 1), Route(2, 1, 2), Route(3, 4, 3), Route(4, 1, 4),
      Route(NULL, 4, 5), Route(5, 5, 6)>>

RECURSIVE RoutesOf(_, _)
RoutesOf(cnt, k) ==
    IF k > Len(RouteKinds) THEN <<>>
    ELSE [i \in 1..cnt[k] |-> RouteKinds[k]] \o RoutesOf(cnt, k + 1)

IndexChoices == {{}, {"airports", "routes"}}

\* Databases that differ in how many airports each country has.
CountryDBs ==
    {[tables |-> TableNames, indexes |-> ix, airports |-> AirportsOf(cnt),
      routes |-> RoutesOutOfEvery(AirportsOf(cnt)), airlines |-> SomeAirlines] :
        cnt \in [{NULL} \cup Countries -> 0..MaxPerCountry], ix \in IndexChoices}

\* Databases that differ in their routes.
RouteDBs ==
    {[tables |-> TableNames, indexes |-> ix, airports |-> SomeAirports,
      routes |-> RoutesOf(cnt, 1), airlines |-> SomeAirlines] :
        cnt \in [DOMAIN RouteKinds -> 0..MaxPerRoute], ix \in IndexChoices}

\* The file with only the tables T.
OnlyTables(d, T) ==
    [tables |-> T, indexes |-> d.indexes \cap T,
     airports |-> IF "airports" \in T THEN d.airports ELSE <<>>,
     routes |-> IF "routes" \in T THEN d.routes ELSE <<>>,
     airlines |-> IF "airlines" \in T THEN d.airlines ELSE <<>>]

\* Files some of whose tables may be missing (none at all: the file
\* sqlite3.connect creates when there is no flights.db).
PartialDBs ==
    {OnlyTables([tables |-> TableNames, indexes |-> {}, airports |-> SomeAirports,
                 routes |-> RoutesOf([k \in DOMAIN RouteKinds |-> n], 1),
                 airlines |-> SomeAirlines], T) :
        n \in 0..MaxPerRoute, T \in SUBSET TableNames}

(************************* specifications *********************************)
\* The kernel after start-up, before any cell has run.
Init ==
    /\ db \in PartialDBs
    /\ imported = FALSE
    /\ conn = 0
    /\ opened = {}
    /\ nopened = 0
    /\ query = ""
    /\ running = {}
    /\ execs = 0
    /\ used = 0
    /\ failed = FALSE
    /\ last = NoOutcome

Next ==
    \/ \E c \in Cells : Start(c)
    \/ FinishImport
    \/ FinishConnect
    \/ \E c \in QueryCells : FinishQuery(c)

Spec == Init /\ [][Next]_vars

\* The order in which the kernel runs cells does not depend on the rows: the
\* files without a route, with every choice of tables.
InitLive ==
    /\ Init
    /\ db.routes = <<>>

Finish ==
    \/ FinishImport
    \/ FinishConnect
    \/ \E c \in QueryCells : FinishQuery(c)

\* A call that has been made returns or raises: the statements are finite
\* SELECTs over finite tables, and nothing in a cell waits for another cell.
LiveSpec == InitLive /\ [][Next]_vars /\ WF_vars(Finish)

\* The query strings as functions of the database: the kernel after the import
\* and connect cells, over the databases that differ in their rows, and the
\* first query cell run then.
InitQ ==
    /\ db \in CountryDBs \cup RouteDBs
    /\ imported = TRUE
    /\ conn = 1
    /\ opened = {1}
    /\ nopened = 1
    /\ query = ""
    /\ running = {}
    /\ execs = 0
    /\ used = 0
    /\ failed = FALSE
    /\ last = [cell |-> "connect", kind |-> "ok", rows |-> <<>>, what |-> ""]

NextQ == \E c \in QueryCells : last.cell = "connect" /\ RunQuery(c)

SpecQ == InitQ /\ [][NextQ]_vars

(****************************** claims *************************************)
\* The engine's answer to the literal of query cell c, as the outcome of c.
OutcomeOf(c, d) == [cell |-> c] @@ Execute(CellLiteral(c), d)

\* C1: the notebook only reads the database: no step of any cell, in any
\* order and however often repeated, changes the schema or the rows of
\* flights.db.
C1_ReadOnly == [][db' = db]_vars

\* Several queries have run, one of them failed, and the last returned rows.
C1_Witness == failed /\ last.kind = "rows" /\ last.rows # <<>> /\ query # ""

\* C2: when the connect cell has run once there is exactly one handle, it is
\* open and it is conn; a query cell's execution never opens, rebinds or closes
\* a handle, and the handle it gives pd.read_sql is conn.
C2_OneHandle ==
    /\ [](/\ nopened = 1 => (conn = 1 /\ opened = {1})
          /\ conn # 0 => conn \in opened)
    /\ [][\A c \in QueryCells :
            (c \in running /\ c \notin running')
                => /\ conn' = conn
                   /\ opened' = opened
                   /\ nopened' = nopened
                   /\ (imported /\ conn # 0) => used' = conn]_vars

\* A query has used the handle of the second connect.
C2_Witness == used = conn /\ conn \in opened /\ nopened > 1 /\ last.kind = "rows"

\* C3: once pd, sqlite3 and conn are bound, the outcome of a query cell is the
\* engine's answer to the cell's own literal on the database, whatever cells
\* ran before it and in whatever order.
C3_Independent ==
    (imported /\ conn # 0 /\ last.cell \in QueryCells)
        => last = OutcomeOf(last.cell, db)

\* The WHERE cell has returned rows after the exercise cell had run and after
\* some query had failed.
C3_Witness ==
    /\ last.cell = "where" /\ last.kind = "rows" /\ last.rows # <<>>
    /\ query = CellLiteral("exercise") /\ failed

C5_Sequential ==
    /\ [](Cardinality(running) <= 1)
    /\ [][running' # running
            => \/ running = {} /\ Cardinality(running') = 1
               \/ running' = {} /\ last'.cell \in running]_vars
    /\ (running # {}) ~> (running = {})

\* The CTE query is in flight on the open connection.
C5_Witness == running = {"cte"} /\ imported /\ conn \in opened

(******************** the queries as functions ****************************)
NumberOf(rows, col, v) == Cardinality({i \in DOMAIN rows : rows[i][col] = v})

ValuesOf(rows, col) == {rows[i][col] : i \in DOMAIN rows}

\* S is a choice of the n values of the column with the most rows among the
\* candidates (of all candidates, if there are fewer than n): no candidate
\* left out has more rows than one taken.
IsTopChoice(S, candidates, rows, col, n) ==
    /\ S \subseteq candidates
    /\ Cardinality(S) = Min(n, Cardinality(candidates))
    /\ \A v \in S : \A w \in candidates \ S :
            NumberOf(rows, col, v) >= NumberOf(rows, col, w)

\* The routes that leave an airport of a country in S, as rows
\* <<source, dest, country>>.
RoutesOutOf(d, S) ==
    {<<d.routes[i].source, d.routes[i].dest, d.airports[j].country>> :
        <<i, j>> \in {p \in (DOMAIN d.routes) \X (DOMAIN d.airports) :
            /\ d.routes[p[1]].source_id # NULL
            /\ d.routes[p[1]].source_id = d.airports[p[2]].id
            /\ d.airports[p[2]].country \in S}}

NonDecreasing(rows, k) ==
    \A i \in 1..(Len(rows) - 1) : rows[i][k] <= rows[i + 1][k]

\* C6: the CTE cell and the WHERE-subquery cell return the same rows on every
\* database: what either cell returned is what the other's query yields.
C6_CteEquivalent ==
    /\ (last.cell = "cte" /\ last.kind = "rows") => last.rows = WhereSubquery(db)
    /\ (last.cell = "where" /\ last.kind = "rows") => last.rows = CteQuery(db)

\* The CTE cell has returned rows from a database with more than five groups
\* of countries, among them airports without a country.
C6_Witness ==
    /\ last.cell = "cte" /\ last.kind = "rows" /\ last.rows # <<>>
    /\ Cardinality(ValuesOf(db.airports, "country")) > CteLimit
    /\ NULL \in ValuesOf(db.airports, "country")

\* C7: the WHERE-subquery cell returns exactly the routes that leave an airport
\* of one of the five countries with the most airports (any choice of five
\* when countries tie; all countries when fewer than five exist; airports
\* without a country counted as a country or not), the subquery yields at most
\* five countries, and the rows are in non-decreasing order of depart_country.
C7_TopFiveCountries ==
    (last.cell = "where" /\ last.kind = "rows")
        => /\ Len(Top5CountriesSubquery(db)) <= SubqueryLimit
           /\ NonDecreasing(last.rows, 3)
           /\ \E countNull \in BOOLEAN :
                LET all == ValuesOf(db.airports, "country")
                                \ (IF countNull THEN {} ELSE {NULL})
                IN  \E S \in SUBSET all :
                        /\ IsTopChoice(S, all, db.airports, "country", SubqueryLimit)
                        /\ Range(last.rows) = RoutesOutOf(db, S)

\* The statement of C7 on the databases in which every airport has a country.
WhereSubqueryWhenCountriesKnown ==
    (last.cell = "where" /\ last.kind = "rows"
        /\ NULL \notin ValuesOf(db.airports, "country"))
        => /\ Len(Top5CountriesSubquery(db)) <= SubqueryLimit
           /\ NonDecreasing(last.rows, 3)
           /\ \E S \in SUBSET ValuesOf(db.airports, "country") :
                /\ IsTopChoice(S, ValuesOf(db.airports, "country"), db.airports,
                               "country", SubqueryLimit)
                /\ Range(last.rows) = RoutesOutOf(db, S)

\* C8: the FROM-subquery cell returns the number of routes divided by the
\* number of airports (the quotient <<sum, n>> it returns equals it, unless it
\* is NULL or there is no airport), and its subquery has one row per departure
\* airport with that airport's number of routes.
C8_AverageOverAllAirports ==
    (last.cell = "avg" /\ last.kind = "rows")
        => /\ \A s \in ValuesOf(db.routes, "source") :
                \E i \in DOMAIN Departures(db) :
                    /\ Departures(db)[i] = <<s, NumberOf(db.routes, "source", s)>>
                    /\ \A j \in DOMAIN Departures(db) :
                            Departures(db)[j][1] = s => j = i
           /\ (Len(db.airports) > 0 /\ last.rows[1][2] # 0)
                => last.rows[1][1] * Len(db.airports)
                        = Len(db.routes) * last.rows[1][2]

\* What the cell does return: the number of routes divided by the number of
\* distinct values of routes.source, and NULL when there is no route.
AverageOverDepartureAirports ==
    (last.cell = "avg" /\ last.kind = "rows")
        => last.rows = << <<Len(db.routes),
                            Cardinality(ValuesOf(db.routes, "source"))>> >>

\* The names of the airlines with a route that leaves or reaches an airport of
\* T (when T holds NULL, a route without a source_id leaves an airport of T).
AirlinesAt(d, T) ==
    {d.airlines[j].name :
        j \in {k \in DOMAIN d.airlines : \E i \in DOMAIN d.routes :
            /\ d.airlines[k].id # NULL
            /\ d.airlines[k].id = d.routes[i].airline_id
            /\ (d.routes[i].source_id \in T \/ d.routes[i].dest_id \in T)}}

\* C9: the exercise cell returns, once each, the names of the airlines with a
\* route at one of the three airports with the most outbound routes (any
\* choice of three when airports tie; routes without a source_id counted as an
\* airport or not), and top_3_airports holds at most three values.
C9_TopThreeAirports ==
    (last.cell = "exercise" /\ last.kind = "rows")
        => /\ Len(top_3_airports(db)) <= Top3Limit
           /\ Cardinality(Range(last.rows)) = Len(last.rows)
           /\ \E countNull \in BOOLEAN :
                LET all == ValuesOf(db.routes, "source_id")
                                \ (IF countNull THEN {} ELSE {NULL})
                IN  \E T \in SUBSET all :
                        /\ IsTopChoice(T, all, db.routes, "source_id", Top3Limit)
                        /\ {r[1] : r \in Range(last.rows)} = AirlinesAt(db, T)

\* The statement of C9 on the databases in which every route has a source_id.
ExerciseWhenSourcesKnown ==
    (last.cell = "exercise" /\ last.kind = "rows"
        /\ NULL \notin ValuesOf(db.routes, "source_id"))
        => /\ Len(top_3_airports(db)) <= Top3Limit
           /\ Cardinality(Range(last.rows)) = Len(last.rows)
           /\ \E T \in SUBSET ValuesOf(db.routes, "source_id") :
                /\ IsTopChoice(T, ValuesOf(db.routes, "source_id"), db.routes,
                               "source_id", Top3Limit)
                /\ {r[1] : r \in Range(last.rows)} = AirlinesAt(db, T)

====
